---- MODULE Spec2Model ----
(***************************************************************************)
(* image-bg-extender: the batch driver (src/src/main.rs) and the           *)
(* aspect-ratio pipeline (src/src/lib.rs).                                 *)
(*                                                                         *)
(* An image is modelled by its dimensions <<width, height>>, a crop by the *)
(* region [x, y, width, height] it retains.  Every u32 of the program is a *)
(* natural number below 2^32; the multiplications of                       *)
(* calculate_canvas_dimensions are the only operations of lib.rs that can  *)
(* leave that range, and they are modelled with their 32-bit width: a      *)
(* release build wraps the product, a build with overflow checks panics.   *)
(* Products are computed in base-4096 digits, since they need not fit the  *)
(* model checker's integers.                                               *)
(***************************************************************************)
EXTENDS Integers, Sequences, FiniteSets

(***************************************************************************)
(* Bounds of the model.                                                    *)
(***************************************************************************)
MaxDim == 5
MaxRatio == 3
MaxJobs == 2
MaxCanvas == 3

\* Dimensions around the 5% edge-length threshold and of the 101x100 scenario.
SampleDims == {19, 20, 100, 101}
\* A dimension and a ratio component whose product does not fit in 32 bits.
LargeDim == 2 ^ 17
LargeRatio == 2 ^ 17

Dims == (1..MaxDim) \cup SampleDims \cup {LargeDim}
\* aspectRatio is read from the job list unvalidated: a component may be 0.
Ratios == (0..MaxRatio) \cup {LargeRatio}
Colors == {"transparent", "c1", "c2"}

(***************************************************************************)
(* 32-bit unsigned arithmetic.                                             *)
(***************************************************************************)
\* The base-4096 digits of a*b (least significant first), for a, b < 2^31.
full_mul(a, b) ==
    LET a0 == a % 4096
        a1 == (a \div 4096) % 4096
        a2 == a \div 16777216
        b0 == b % 4096
        b1 == (b \div 4096) % 4096
        b2 == b \div 16777216
        t0 == a0 * b0
        t1 == a0 * b1 + a1 * b0 + (t0 \div 4096)
        t2 == a0 * b2 + a1 * b1 + a2 * b0 + (t1 \div 4096)
        t3 == a1 * b2 + a2 * b1 + (t2 \div 4096)
        t4 == a2 * b2 + (t3 \div 4096)
    IN  <<t0 % 4096, t1 % 4096, t2 % 4096, t3 % 4096, t4 % 4096, t4 \div 4096>>

\* a*b does not fit in a u32: the product is at least 2^32 = 256 * 4096^2.
mul_overflows(a, b) ==
    LET p == full_mul(a, b)
    IN  p[3] >= 256 \/ p[4] > 0 \/ p[5] > 0 \/ p[6] > 0

\* a*b as a release build computes it: the low 32 bits of the product.
wrapping_mul(a, b) ==
    LET p == full_mul(a, b)
    IN  p[1] + 4096 * p[2] + 16777216 * (p[3] % 256)

\* u32::saturating_sub
saturating_sub(a, b) == IF a > b THEN a - b ELSE 0

max(a, b) == IF a >= b THEN a ELSE b
min(a, b) == IF a <= b THEN a ELSE b

(***************************************************************************)
(* lib.rs: the pure stages of the pipeline.                                *)
(***************************************************************************)
div(base, modulo) == <<base \div modulo, base % modulo>>

\* base / modulo and base % modulo panic ('attempt to divide by zero') in
\* every build profile.
div_panics(base, modulo) == modulo = 0

RECURSIVE bit_length(_)
bit_length(n) == IF n = 0 THEN 0 ELSE 1 + bit_length(n \div 2)

\* (length as f32 * 0.05).floor() as u32.  0.05f32 is 13421773 * 2^-28
\* (13421773 = 3276 * 4096 + 3277); the exact product hi * 2^24 + lo is
\* rounded to 24 significant bits, ties to even, as an f32 multiplication
\* rounds it, and then floored.  length converts to f32 exactly below 2^24.
calculate_edge_length(length) ==
    LET n0  == length % 4096
        n1  == length \div 4096
        mid == n1 * 3277 + n0 * 3276
        t   == n0 * 3277 + (mid % 4096) * 4096
        lo  == t % 16777216
        hi  == n1 * 3276 + (mid \div 4096) + (t \div 16777216)
        h   == bit_length(hi)
        m0  == hi * (2 ^ (24 - h)) + (lo \div (2 ^ h))
        rem == lo % (2 ^ h)
        up  == IF h = 0 THEN 0
               ELSE IF rem > 2 ^ (h - 1) \/ (rem = 2 ^ (h - 1) /\ m0 % 2 = 1)
                    THEN 1 ELSE 0
    IN  (m0 + up) \div (2 ^ (28 - h))


\* The image crate's crop_imm on an image of dimensions img: the requested
\* rectangle is clamped to the image before it is cut out.
crop_imm(img, x, y, width, height) ==
    LET cx == min(x, img[1])
        cy == min(y, img[2])
    IN  [x |-> cx, y |-> cy,
         width |-> min(width, img[1] - cx),
         height |-> min(height, img[2] - cy)]

\* The colour resize_exact(1, 1, Nearest) + get_pixel(0, 0) yields for a
\* crop: it is identified by the crop it was sampled from.
average_color(crop) == [sampled_from |-> crop]

\* The two strips cropped from the trimmed image img and their colours.
aggregate_edge_colors(img, orientation) ==
    LET width  == img[1]
        height == img[2]
    IN  IF orientation = "Landscape"
        THEN LET edge_length == calculate_edge_length(height)
             IN  <<average_color(crop_imm(img, 0, 0, width, edge_length)),
                   average_color(crop_imm(img, 0, height - edge_length,
                                          width, edge_length))>>
        ELSE LET edge_length == calculate_edge_length(width)
             IN  <<average_color(crop_imm(img, 0, 0, edge_length, height)),
                   average_color(crop_imm(img, width - edge_length, 0,
                                          edge_length, height))>>

\* Mutant of normalise_image: the crop starts at the whole overflow instead
\* of half of it.
normalise_image_unhalved(img, overflow) ==
    crop_imm(img, overflow[1], overflow[2],
             img[1] - overflow[1], img[2] - overflow[2])

normalise_image(img, overflow) ==
    crop_imm(img, overflow[1] \div 2, overflow[2] \div 2,
             img[1] - overflow[1], img[2] - overflow[2])

\* Mutant of calculate_canvas_dimensions: each orientation sizes the canvas
\* off the other axis' multiplier.
calculate_canvas_dimensions_swapped(aspect, multiplier, orientation) ==
    IF orientation = "Landscape"
    THEN <<wrapping_mul(aspect[1], multiplier[2]),
           wrapping_mul(aspect[2], multiplier[2])>>
    ELSE <<wrapping_mul(aspect[1], multiplier[1]),
           wrapping_mul(aspect[2], multiplier[1])>>

\* Mutant of calculate_canvas_dimensions: the Portrait branch repeats the
\* Landscape branch.
calculate_canvas_dimensions_one_branch(aspect, multiplier, orientation) ==
    <<wrapping_mul(aspect[1], multiplier[1]),
      wrapping_mul(aspect[2], multiplier[1])>>

\* The canvas as a release build computes it (the products wrap at 2^32).
calculate_canvas_dimensions(aspect, multiplier, orientation) ==
    IF orientation = "Landscape"
    THEN <<wrapping_mul(aspect[1], multiplier[1]),
           wrapping_mul(aspect[2], multiplier[1])>>
    ELSE <<wrapping_mul(aspect[1], multiplier[2]),
           wrapping_mul(aspect[2], multiplier[2])>>

\* A build with overflow checks panics in calculate_canvas_dimensions when
\* one of its two products does not fit in a u32.
canvas_overflows(aspect, multiplier, orientation) ==
    LET m == IF orientation = "Landscape" THEN multiplier[1] ELSE multiplier[2]
    IN  mul_overflows(aspect[1], m) \/ mul_overflows(aspect[2], m)

\* Mutant of is_exact_ratio: the multipliers are not compared.
is_exact_ratio_no_multipliers(multiplier, overflow) ==
    overflow[1] = 0 /\ overflow[2] = 0

\* compile_image, line 129: the image is exactly within the aspect ratio.
is_exact_ratio(multiplier, overflow) ==
    overflow[1] = 0 /\ overflow[2] = 0 /\ multiplier[1] = multiplier[2]

\* compile_image, lines 130-134.
orientation_of(multiplier) ==
    IF multiplier[1] > multiplier[2] THEN "Landscape" ELSE "Portrait"

\* compile_image, lines 151-152: where copy_from places the trimmed image.
copy_offset(canvasDims, imgDims) ==
    <<max(saturating_sub(canvasDims[1], imgDims[1]) \div 2, 0),
      max(saturating_sub(canvasDims[2], imgDims[2]) \div 2, 0)>>

\* GenericImage::copy_from refuses an image that does not fit at (x, y).
copy_from_fails(canvasDims, imgDims, at) ==
    \/ canvasDims[1] < imgDims[1] + at[1]
    \/ canvasDims[2] < imgDims[2] + at[2]

\* Mutant of split_color: the Landscape split includes the middle row.
split_color_inclusive(width, height, x, y, first_color, second_color, orientation) ==
    IF orientation = "Landscape"
    THEN IF y >= height \div 2 THEN first_color ELSE second_color
    ELSE IF x < width \div 2 THEN first_color ELSE second_color

\* create_split_background: the colour put at pixel (x, y) of a canvas of
\* the given dimensions.
split_color(width, height, x, y, first_color, second_color, orientation) ==
    IF orientation = "Landscape"
    THEN IF y > height \div 2 THEN first_color ELSE second_color
    ELSE IF x < width \div 2 THEN first_color ELSE second_color

(***************************************************************************)
(* The canvas.  Both loops of create_split_background put one colour on a  *)
(* whole line (a row for Landscape, a column for Portrait), so a canvas is *)
(* kept as its dimensions, the bands of consecutive lines put with the     *)
(* same colour, and the rectangle copy_from has written over them.         *)
(***************************************************************************)
\* image::RgbaImage::new: every pixel transparent, nothing put yet.
blank_canvas(dims) ==
    [width |-> dims[1], height |-> dims[2], bands |-> <<>>, pasted |-> <<>>]

\* The inner loop of create_split_background: put_pixel with one colour on
\* every pixel of line i (axis "y": row i, axis "x": column i).
put_line(bg, axis, i, color) ==
    LET n == Len(bg.bands)
    IN  IF n > 0 /\ bg.bands[n].axis = axis /\ bg.bands[n].to = i - 1
                 /\ bg.bands[n].color = color
        THEN [bg EXCEPT !.bands[n].to = i]
        ELSE [bg EXCEPT !.bands =
                 Append(@, [axis |-> axis, from |-> i, to |-> i, color |-> color])]

\* The number of iterations of the outer loop of create_split_background.
line_count(bg, orientation) ==
    IF orientation = "Landscape" THEN bg.height ELSE bg.width

\* The colour the outer loop chooses for line i.
line_color(bg, i, first_color, second_color, orientation) ==
    IF orientation = "Landscape"
    THEN split_color(bg.width, bg.height, 0, i, first_color, second_color, orientation)
    ELSE split_color(bg.width, bg.height, i, 0, first_color, second_color, orientation)

\* create_split_background as a whole: the canvas its loops leave behind.
\* The lines 0..n-1 fall into at most two bands, which split where
\* line_color changes: after line height/2 (Landscape), before line width/2
\* (Portrait).
create_split_background(bg, first_color, second_color, orientation) ==
    LET n     == line_count(bg, orientation)
        axis  == IF orientation = "Landscape" THEN "y" ELSE "x"
        half  == n \div 2
        lowTo == IF orientation = "Landscape" THEN min(half, n - 1) ELSE half - 1
        low   == IF lowTo >= 0
                 THEN <<[axis |-> axis, from |-> 0, to |-> lowTo,
                         color |-> line_color(bg, 0, first_color, second_color,
                                              orientation)]>>
                 ELSE <<>>
        high  == IF lowTo + 1 <= n - 1
                 THEN <<[axis |-> axis, from |-> lowTo + 1, to |-> n - 1,
                         color |-> line_color(bg, n - 1, first_color, second_color,
                                              orientation)]>>
                 ELSE <<>>
    IN  [bg EXCEPT !.bands =
            IF low # <<>> /\ high # <<>> /\ low[1].color = high[1].color
            THEN <<[axis |-> axis, from |-> 0, to |-> n - 1, color |-> low[1].color]>>
            ELSE low \o high]

\* GenericImage::copy_from, when it succeeds: the pixels of the trimmed
\* image replace those of the canvas in the rectangle at (at[1], at[2]).
copy_from(bg, imgDims, at) ==
    [bg EXCEPT !.pasted = <<[x |-> at[1], y |-> at[2],
                             width |-> imgDims[1], height |-> imgDims[2]]>>]

\* Pixel p of the canvas has been put by create_split_background.
is_put(bg, p) ==
    \E k \in 1..Len(bg.bands) :
        LET line == IF bg.bands[k].axis = "y" THEN p[2] ELSE p[1]
        IN  bg.bands[k].from <= line /\ line <= bg.bands[k].to

\* The colour create_split_background left at pixel p.
background_at(bg, p) ==
    IF is_put(bg, p)
    THEN LET k == CHOOSE k \in 1..Len(bg.bands) :
                     LET line == IF bg.bands[k].axis = "y" THEN p[2] ELSE p[1]
                     IN  bg.bands[k].from <= line /\ line <= bg.bands[k].to
         IN  bg.bands[k].color
    ELSE "transparent"

\* main, lines 7-16: the lines printed for a job's result.
main_report(j, result) ==
    IF result = "ok" THEN <<[job |-> j, line |-> "Image saved to"]>>
    ELSE IF result = "io" THEN <<[job |-> j, line |-> "IO error"]>>
    ELSE IF result = "image" THEN <<[job |-> j, line |-> "Image error"]>>
    ELSE <<>>

(***************************************************************************)
(* State.                                                                  *)
(*                                                                         *)
(* main reads the whole job list before its loop; the jobs are immutable   *)
(* and independent, so the model fixes the length of the list at the start *)
(* and draws each job's aspectRatio when the loop reaches the job.  What   *)
(* the file system holds at a job's source (nothing, undecodable bytes, an *)
(* image of some dimensions) is drawn when compile_image opens it.         *)
(***************************************************************************)
VARIABLES
    batch_len,      \* info_list.len()
    job,            \* index of the job the loop is at (0 before the first)
    pc,             \* the step to run next
    stage,          \* the step of compile_image that ran last
    aspect_ratio,   \* info.aspect_ratio
    img,            \* dimensions of the decoded source
    multiplier,     \* (width_multiplier, height_multiplier)
    overflow,       \* (width_overflow, height_overflow)
    path,           \* "copy" or "composite", decided at line 129
    orientation,
    trimmed,        \* the region normalise_image retains
    edge_colors,    \* (first_edge, second_edge)
    canvas,         \* (canvas_width, canvas_height)
    offset,         \* the position handed to copy_from
    result,         \* what compile_image returned: "ok", "io", "image"
    reports,        \* the lines main printed, in order
    written,        \* the destinations written, and by which call
    bg_img,         \* the canvas: bands put so far, rectangle copied onto it
    cursor          \* create_split_background: the outer loop's index

vars == <<batch_len, job, pc, stage, aspect_ratio, img, multiplier, overflow,
          path, orientation, trimmed, edge_colors, canvas, offset, result,
          reports, written, bg_img, cursor>>

job_locals == <<stage, img, multiplier, overflow, path, orientation, trimmed,
                edge_colors, canvas, offset, result>>
paint_vars == <<bg_img, cursor>>
driver_vars == <<batch_len, job, aspect_ratio, reports, written>>

no_region == [x |-> 0, y |-> 0, width |-> 0, height |-> 0]

trimmed_dims == <<trimmed.width, trimmed.height>>

Init ==
    /\ batch_len \in 0..MaxJobs
    /\ job = 0
    /\ pc = "loop"
    /\ aspect_ratio = <<1, 1>>
    /\ stage = "none"
    /\ img = <<0, 0>>
    /\ multiplier = <<0, 0>>
    /\ overflow = <<0, 0>>
    /\ path = "none"
    /\ orientation = "none"
    /\ trimmed = no_region
    /\ edge_colors = <<>>
    /\ canvas = <<0, 0>>
    /\ offset = <<0, 0>>
    /\ result = "none"
    /\ reports = <<>>
    /\ written = {}
    /\ bg_img = blank_canvas(<<0, 0>>)
    /\ cursor = 0

(***************************************************************************)
(* main.rs: the loop over the jobs.                                        *)
(***************************************************************************)
\* for info in info_list: the next job is handed to compile_image.
NextJob ==
    /\ pc = "loop"
    /\ job < batch_len
    /\ job' = job + 1
    /\ \E rw \in Ratios, rh \in Ratios : aspect_ratio' = <<rw, rh>>
    /\ pc' = "open"
    /\ UNCHANGED <<batch_len, reports, written, job_locals, paint_vars>>

\* The match on compile_image's result; the result and the locals of the
\* call are gone when the iteration ends.
Report ==
    /\ pc = "return"
    /\ reports' = reports \o main_report(job, result)
    /\ pc' = "loop"
    /\ stage' = "none"
    /\ img' = <<0, 0>>
    /\ multiplier' = <<0, 0>>
    /\ overflow' = <<0, 0>>
    /\ path' = "none"
    /\ orientation' = "none"
    /\ trimmed' = no_region
    /\ edge_colors' = <<>>
    /\ canvas' = <<0, 0>>
    /\ offset' = <<0, 0>>
    /\ result' = "none"
    /\ bg_img' = blank_canvas(<<0, 0>>)
    /\ cursor' = 0
    /\ UNCHANGED <<batch_len, job, aspect_ratio, written>>

\* The list is exhausted: main returns Ok(()).
Finish ==
    /\ pc = "loop"
    /\ job = batch_len
    /\ pc' = "done"
    /\ UNCHANGED <<driver_vars, job_locals, paint_vars>>

(***************************************************************************)
(* lib.rs: compile_image, one action per step.                             *)
(***************************************************************************)
\* Line 122: ImageReader::open(src)? fails with an io::Error.
OpenError ==
    /\ pc = "open"
    /\ stage' = "open"
    /\ result' = "io"
    /\ pc' = "return"
    /\ UNCHANGED <<driver_vars, img, multiplier, overflow, path, orientation,
                   trimmed, edge_colors, canvas, offset, paint_vars>>

\* Mutant of DecodeError: the destination file is created before the source
\* is decoded.
DecodeError_destination_created ==
    /\ pc = "open"
    /\ stage' = "decode"
    /\ result' = "image"
    /\ pc' = "return"
    /\ written' = written \cup {[job |-> job, by |-> "save"]}
    /\ UNCHANGED <<batch_len, job, aspect_ratio, reports, img, multiplier,
                   overflow, path, orientation, trimmed, edge_colors, canvas,
                   offset, paint_vars>>

\* Line 122: .decode()? fails with an ImageError.
DecodeError ==
    /\ pc = "open"
    /\ stage' = "decode"
    /\ result' = "image"
    /\ pc' = "return"
    /\ UNCHANGED <<driver_vars, img, multiplier, overflow, path, orientation,
                   trimmed, edge_colors, canvas, offset, paint_vars>>

\* Lines 122-124: the source decodes to an image of some dimensions.
Decode ==
    /\ pc = "open"
    /\ \E w \in Dims, h \in Dims : img' = <<w, h>>
    /\ stage' = "decode"
    /\ pc' = "reconcile"
    /\ UNCHANGED <<driver_vars, multiplier, overflow, path, orientation,
                   trimmed, edge_colors, canvas, offset, result, paint_vars>>

\* Lines 126-134: the multipliers, the overflows, the path and the orientation.
Reconcile ==
    /\ pc = "reconcile"
    /\ ~div_panics(img[1], aspect_ratio[1])
    /\ ~div_panics(img[2], aspect_ratio[2])
    /\ LET w == div(img[1], aspect_ratio[1])
           h == div(img[2], aspect_ratio[2])
           m == <<w[1], h[1]>>
           o == <<w[2], h[2]>>
       IN  /\ multiplier' = m
           /\ overflow' = o
           /\ IF is_exact_ratio(m, o)
              THEN /\ path' = "copy"
                   /\ orientation' = orientation
                   /\ pc' = "copy"
              ELSE /\ path' = "composite"
                   /\ orientation' = orientation_of(m)
                   /\ pc' = "normalise"
    /\ stage' = "reconcile"
    /\ UNCHANGED <<driver_vars, img, trimmed, edge_colors, canvas, offset,
                   result, paint_vars>>

\* Lines 126-127: a ratio component of 0 makes div panic, and the panic
\* unwinds through main.
DivPanic ==
    /\ pc = "reconcile"
    /\ div_panics(img[1], aspect_ratio[1]) \/ div_panics(img[2], aspect_ratio[2])
    /\ stage' = "reconcile"
    /\ pc' = "panicked"
    /\ UNCHANGED <<driver_vars, img, multiplier, overflow, path, orientation,
                   trimmed, edge_colors, canvas, offset, result, paint_vars>>

\* Line 136.
Normalise ==
    /\ pc = "normalise"
    /\ trimmed' = normalise_image(img, overflow)
    /\ stage' = "normalise"
    /\ pc' = "sample"
    /\ UNCHANGED <<driver_vars, img, multiplier, overflow, path, orientation,
                   edge_colors, canvas, offset, result, paint_vars>>

\* Line 137.
SampleEdges ==
    /\ pc = "sample"
    /\ edge_colors' = aggregate_edge_colors(trimmed_dims, orientation)
    /\ stage' = "sample"
    /\ pc' = "canvas"
    /\ UNCHANGED <<driver_vars, img, multiplier, overflow, path, orientation,
                   trimmed, canvas, offset, result, paint_vars>>

\* Lines 139-143.
CanvasDimensions ==
    /\ pc = "canvas"
    /\ canvas' = calculate_canvas_dimensions(aspect_ratio, multiplier, orientation)
    /\ stage' = "canvas"
    /\ pc' = "composite"
    /\ UNCHANGED <<driver_vars, img, multiplier, overflow, path, orientation,
                   trimmed, edge_colors, offset, result, paint_vars>>

\* Lines 139-143 in a build with overflow checks: a product that does not
\* fit panics, and the panic unwinds through main.
CanvasPanic ==
    /\ pc = "canvas"
    /\ canvas_overflows(aspect_ratio, multiplier, orientation)
    /\ stage' = "canvas"
    /\ pc' = "panicked"
    /\ UNCHANGED <<driver_vars, img, multiplier, overflow, path, orientation,
                   trimmed, edge_colors, canvas, offset, result, paint_vars>>

\* Lines 145-155: the canvas is allocated and painted, and the trimmed image
\* is copied onto it; copy_from checks the bounds before it writes, and its
\* error is returned by the ? operator.
Composite ==
    /\ pc = "composite"
    /\ LET at == copy_offset(canvas, trimmed_dims)
           bg == create_split_background(blank_canvas(canvas), edge_colors[1],
                                         edge_colors[2], orientation)
       IN  /\ offset' = at
           /\ cursor' = line_count(bg, orientation)
           /\ IF copy_from_fails(canvas, trimmed_dims, at)
              THEN bg_img' = bg /\ result' = "image" /\ pc' = "return"
              ELSE /\ bg_img' = copy_from(bg, trimmed_dims, at)
                   /\ result' = result
                   /\ pc' = "save"
    /\ stage' = "composite"
    /\ UNCHANGED <<driver_vars, img, multiplier, overflow, path, orientation,
                   trimmed, edge_colors, canvas>>

\* Line 157: new_img.save(dest)? succeeds.
Save ==
    /\ pc = "save"
    /\ written' = written \cup {[job |-> job, by |-> "save"]}
    /\ stage' = "save"
    /\ result' = "ok"
    /\ pc' = "return"
    /\ UNCHANGED <<batch_len, job, aspect_ratio, reports, img, multiplier,
                   overflow, path, orientation, trimmed, edge_colors, canvas,
                   offset, paint_vars>>

\* Line 157: save fails with an ImageError, before or after it created the
\* destination file.
SaveError ==
    /\ pc = "save"
    /\ \E touched \in BOOLEAN :
          written' = IF touched
                     THEN written \cup {[job |-> job, by |-> "save"]}
                     ELSE written
    /\ stage' = "save"
    /\ result' = "image"
    /\ pc' = "return"
    /\ UNCHANGED <<batch_len, job, aspect_ratio, reports, img, multiplier,
                   overflow, path, orientation, trimmed, edge_colors, canvas,
                   offset, paint_vars>>

\* Line 159: std::fs::copy(src, dest)? succeeds.
Copy ==
    /\ pc = "copy"
    /\ written' = written \cup {[job |-> job, by |-> "copy"]}
    /\ stage' = "copy"
    /\ result' = "ok"
    /\ pc' = "return"
    /\ UNCHANGED <<batch_len, job, aspect_ratio, reports, img, multiplier,
                   overflow, path, orientation, trimmed, edge_colors, canvas,
                   offset, paint_vars>>

\* Line 159: std::fs::copy fails with an io::Error, before or after it
\* created the destination file.
CopyError ==
    /\ pc = "copy"
    /\ \E touched \in BOOLEAN :
          written' = IF touched
                     THEN written \cup {[job |-> job, by |-> "copy"]}
                     ELSE written
    /\ stage' = "copy"
    /\ result' = "io"
    /\ pc' = "return"
    /\ UNCHANGED <<batch_len, job, aspect_ratio, reports, img, multiplier,
                   overflow, path, orientation, trimmed, edge_colors, canvas,
                   offset, paint_vars>>

Next ==
    \/ NextJob
    \/ Report
    \/ Finish
    \/ OpenError
    \/ DecodeError
    \/ Decode
    \/ Reconcile
    \/ DivPanic
    \/ Normalise
    \/ SampleEdges
    \/ CanvasDimensions
    \/ CanvasPanic
    \/ Composite
    \/ Save
    \/ SaveError
    \/ Copy
    \/ CopyError

Spec == Init /\ [][Next]_vars

(***************************************************************************)
(* create_split_background on its own: a canvas as RgbaImage::new leaves   *)
(* it, two colours and an orientation, painted one iteration of the outer  *)
(* loop at a time.                                                         *)
(***************************************************************************)
pixels_of(dims) == (0..(dims[1] - 1)) \X (0..(dims[2] - 1))

InitPaint ==
    /\ pc = "paint"
    /\ canvas \in (0..MaxCanvas) \X (0..MaxCanvas)
    /\ orientation \in {"Landscape", "Portrait"}
    /\ edge_colors \in Colors \X Colors
    /\ bg_img = blank_canvas(canvas)
    /\ cursor = 0
    /\ batch_len = 0
    /\ job = 0
    /\ aspect_ratio = <<1, 1>>
    /\ stage = "none"
    /\ img = <<0, 0>>
    /\ multiplier = <<0, 0>>
    /\ overflow = <<0, 0>>
    /\ path = "none"
    /\ trimmed = no_region
    /\ offset = <<0, 0>>
    /\ result = "none"
    /\ reports = <<>>
    /\ written = {}

\* Lines 95-104: one row of the Landscape branch.
PaintRow ==
    /\ pc = "paint"
    /\ orientation = "Landscape"
    /\ cursor < bg_img.height
    /\ bg_img' = put_line(bg_img, "y", cursor,
                          line_color(bg_img, cursor, edge_colors[1],
                                     edge_colors[2], orientation))
    /\ cursor' = cursor + 1
    /\ UNCHANGED <<driver_vars, pc, job_locals>>

\* Lines 106-115: one column of the Portrait branch.
PaintColumn ==
    /\ pc = "paint"
    /\ orientation # "Landscape"
    /\ cursor < bg_img.width
    /\ bg_img' = put_line(bg_img, "x", cursor,
                          line_color(bg_img, cursor, edge_colors[1],
                                     edge_colors[2], orientation))
    /\ cursor' = cursor + 1
    /\ UNCHANGED <<driver_vars, pc, job_locals>>

\* The outer loop is exhausted: create_split_background returns.
PaintDone ==
    /\ pc = "paint"
    /\ cursor = line_count(bg_img, orientation)
    /\ pc' = "painted"
    /\ UNCHANGED <<driver_vars, job_locals, paint_vars>>

NextPaint ==
    \/ PaintRow
    \/ PaintColumn
    \/ PaintDone

SpecPaint == InitPaint /\ [][NextPaint]_vars

(***************************************************************************)
(* Properties.                                                             *)
(***************************************************************************)
\* The stages of the current job that have run.
Normalised == stage \in {"normalise", "sample", "canvas", "composite", "save"}
Sampled == stage \in {"sample", "canvas", "composite", "save"}
Sized == stage \in {"canvas", "composite", "save"} /\ pc # "panicked"
Composited == stage \in {"composite", "save"}
Overflowed == canvas_overflows(aspect_ratio, multiplier, orientation)

\* C1: compile_image takes the copy path (std::fs::copy, no trimming,
\* sampling or compositing) exactly when both remainders are zero and the
\* two quotients are equal; in particular every image with W*rh = H*rw and
\* no remainder is copied, and every other image is composited and saved.
C1_CopyIffExactRatio ==
    path # "none" =>
        LET W  == img[1]
            H  == img[2]
            rw == aspect_ratio[1]
            rh == aspect_ratio[2]
        IN  /\ (path = "copy") <=>
                  (W % rw = 0 /\ H % rh = 0 /\ W \div rw = H \div rh)
            /\ (W % rw = 0 /\ H % rh = 0 /\ full_mul(W, rh) = full_mul(H, rw))
                  => path = "copy"
            /\ path = "copy" =>
                  /\ stage \in {"reconcile", "copy"}
                  /\ trimmed = no_region
                  /\ edge_colors = <<>>
            /\ path # "copy" => path = "composite" /\ stage # "copy"
            /\ \A wr \in written :
                  wr.job = job =>
                     wr.by = IF path = "copy" THEN "copy" ELSE "save"

C1_Witness ==
    /\ path = "copy"
    /\ img = <<4, 2>>
    /\ aspect_ratio = <<2, 1>>
    /\ result = "ok"
    /\ [job |-> job, by |-> "copy"] \in written

\* C2: on the compositing path the trimmed image placed at the centring
\* offset lies entirely inside the canvas, so copy_from never fails.
C2_TrimmedInsideCanvas ==
    Composited =>
        /\ canvas[1] >= trimmed.width
        /\ canvas[2] >= trimmed.height
        /\ offset[1] + trimmed.width <= canvas[1]
        /\ offset[2] + trimmed.height <= canvas[2]
        /\ ~(stage = "composite" /\ result = "image")

\* What holds of the code instead of C2: the same, unless a product of
\* calculate_canvas_dimensions overflowed.
TrimmedInsideCanvasUnlessOverflow == Overflowed \/ C2_TrimmedInsideCanvas

\* C3: the canvas computed by calculate_canvas_dimensions has exactly the
\* target aspect ratio: canvasWidth * rh = canvasHeight * rw.
C3_CanvasKeepsRatio ==
    Sized =>
        full_mul(canvas[1], aspect_ratio[2]) = full_mul(canvas[2], aspect_ratio[1])

\* What holds of the code instead of C3.
CanvasKeepsRatioUnlessOverflow == Overflowed \/ C3_CanvasKeepsRatio

\* C4: the image normalise_image produces has width W - (W mod rw) and
\* height H - (H mod rh), each divisible by its ratio component, and its
\* region, starting at (widthOverflow/2, heightOverflow/2), lies inside the
\* source, so that crop_imm clamps nothing.
C4_TrimmedDivisible ==
    Normalised =>
        LET W  == img[1]
            H  == img[2]
            rw == aspect_ratio[1]
            rh == aspect_ratio[2]
        IN  /\ trimmed.width = W - (W % rw)
            /\ trimmed.height = H - (H % rh)
            /\ trimmed.width % rw = 0
            /\ trimmed.height % rh = 0
            /\ trimmed.x = overflow[1] \div 2
            /\ trimmed.y = overflow[2] \div 2
            /\ trimmed.x + trimmed.width <= W
            /\ trimmed.y + trimmed.height <= H

C4_Witness ==
    /\ Normalised
    /\ overflow[1] = 2
    /\ overflow[2] = 1
    /\ trimmed = [x |-> 1, y |-> 0, width |-> 3, height |-> 2]

\* C5: the driver processes every job exactly once, in input order, and
\* prints exactly one report per job (the destination, an I/O error or an
\* image error); a failed job never keeps the following jobs from being
\* processed.
C5_OneReportPerJob ==
    /\ \A k \in 1..Len(reports) :
          /\ reports[k].job = k
          /\ reports[k].line \in {"Image saved to", "IO error", "Image error"}
    /\ Len(reports) = (IF pc \in {"loop", "done"} THEN job ELSE job - 1)
    /\ pc \in {"done", "panicked"} => Len(reports) = batch_len

\* What holds of the code instead of C5: the same, as long as no job panics.
OneReportPerJobUnlessPanicked == pc = "panicked" \/ C5_OneReportPerJob

\* C6: when a job fails because its source cannot be opened or decoded, or
\* because compositing fails, an error is returned and the destination is
\* not written: the write (save or copy) is the last step, reached only
\* after every earlier stage succeeded; the loop then goes on to the next
\* job.
C6_FailureLeavesDestination ==
    /\ (result \in {"io", "image"} /\ stage \in {"open", "decode", "composite"}) =>
          /\ \A wr \in written : wr.job # job
          /\ pc = "return"
          /\ ENABLED Report
    /\ \A wr \in written :
          wr.job = job => stage \in {"save", "copy"} \/ pc \in {"loop", "done"}
    /\ (pc = "loop" /\ job < batch_len) => ENABLED NextJob

C6_Witness ==
    /\ job = 2
    /\ Len(reports) = 1
    /\ reports[1].line = "IO error"
    /\ pc = "return"
    /\ result = "ok"
    /\ written = {[job |-> 2, by |-> "save"]}

\* C7 as amended: for source 101x100 with ratio (1,1) the multipliers are
\* (101,100) with zero overflow, the orientation is Landscape, the edge
\* length is 5, nothing is trimmed, the canvas is (101,101), and both
\* offsets are 0: the canvas is as wide as the trimmed image, and
\* (101 - 100) / 2 = 0.
C7_Scenario101x100 ==
    (img = <<101, 100>> /\ aspect_ratio = <<1, 1>> /\ Composited) =>
        /\ multiplier = <<101, 100>>
        /\ overflow = <<0, 0>>
        /\ orientation = "Landscape"
        /\ edge_colors[1].sampled_from = [x |-> 0, y |-> 0, width |-> 101, height |-> 5]
        /\ edge_colors[2].sampled_from = [x |-> 0, y |-> 95, width |-> 101, height |-> 5]
        /\ trimmed = [x |-> 0, y |-> 0, width |-> 101, height |-> 100]
        /\ canvas = <<101, 101>>
        /\ offset = <<0, 0>>
        /\ ~(stage = "composite" /\ result = "image")

C7_Witness ==
    /\ img = <<101, 100>>
    /\ aspect_ratio = <<1, 1>>
    /\ stage = "save"
    /\ result = "ok"
    /\ canvas = <<101, 101>>

\* C7 as claimed: in that scenario the canvas is (100,100), narrower than
\* the trimmed image, and the horizontal offset saturates to 0.
C7_AsClaimed ==
    (img = <<101, 100>> /\ aspect_ratio = <<1, 1>> /\ Composited) =>
        /\ multiplier = <<101, 100>>
        /\ overflow = <<0, 0>>
        /\ orientation = "Landscape"
        /\ edge_colors[1].sampled_from.height = 5
        /\ trimmed.width = 101
        /\ canvas = <<100, 100>>
        /\ trimmed.width > canvas[1]
        /\ offset[1] = 0

\* C8: both strips cropped by aggregate_edge_colors are non-empty: an edge
\* length of 0 is replaced by a strip of at least one pixel.
C8_StripsNonEmpty ==
    Sampled =>
        \A i \in 1..2 :
            /\ edge_colors[i].sampled_from.width > 0
            /\ edge_colors[i].sampled_from.height > 0

\* C9: create_split_background paints every pixel of the canvas: for
\* Landscape the rows y > height/2 get the first colour and the rows
\* y <= height/2 the second; for Portrait the columns x < width/2 get the
\* first colour and the others the second.
C9_SplitBackground ==
    pc \in {"paint", "painted"} =>
        \A p \in pixels_of(canvas) :
            /\ pc = "painted" => is_put(bg_img, p)
            /\ is_put(bg_img, p) =>
                  background_at(bg_img, p) =
                      IF orientation = "Landscape"
                      THEN IF p[2] > canvas[2] \div 2
                           THEN edge_colors[1] ELSE edge_colors[2]
                      ELSE IF p[1] < canvas[1] \div 2
                           THEN edge_colors[1] ELSE edge_colors[2]

C9_Witness ==
    /\ pc = "painted"
    /\ orientation = "Landscape"
    /\ canvas = <<2, 3>>
    /\ edge_colors = <<"c1", "c2">>
    /\ background_at(bg_img, <<0, 2>>) = "c1"
    /\ background_at(bg_img, <<1, 1>>) = "c2"
    /\ background_at(bg_img, <<0, 0>>) = "c2"

\* The loops of create_split_background, run line by line, leave the canvas
\* that create_split_background (the operator Composite uses) computes.
LoopsLeaveSplitBackground ==
    pc = "painted" =>
        bg_img = create_split_background(blank_canvas(canvas), edge_colors[1],
                                         edge_colors[2], orientation)

\* Under Spec: a composited canvas is painted on every line, and the
\* trimmed image lies where copy_from put it.
CompositePaintsCanvas ==
    (Composited /\ pc # "loop") =>
        /\ bg_img.width = canvas[1] /\ bg_img.height = canvas[2]
        /\ cursor = line_count(bg_img, orientation)
        /\ (cursor > 0) =>
              /\ bg_img.bands[1].from = 0
              /\ bg_img.bands[Len(bg_img.bands)].to = cursor - 1
        /\ result # "image" \/ stage # "composite" =>
              bg_img.pasted = <<[x |-> offset[1], y |-> offset[2],
                                 width |-> trimmed.width, height |-> trimmed.height]>>

\* C10: the background shows along one axis only.  Landscape: the canvas is
\* as wide as the trimmed image and the x offset is 0.  Portrait: the canvas
\* is as high as the trimmed image and the y offset is 0.  Equal multipliers
\* (classified Portrait): the canvas equals the trimmed image.
C10_PaddingOnOneAxis ==
    /\ Sized =>
          /\ orientation = "Landscape" => canvas[1] = trimmed.width
          /\ orientation = "Portrait" => canvas[2] = trimmed.height
          /\ multiplier[1] = multiplier[2] =>
                orientation = "Portrait" /\ canvas = trimmed_dims
    /\ Composited =>
          /\ orientation = "Landscape" => offset[1] = 0
          /\ orientation = "Portrait" => offset[2] = 0
          /\ multiplier[1] = multiplier[2] => offset = <<0, 0>>

C10_Witness ==
    /\ Composited
    /\ multiplier = <<2, 2>>
    /\ overflow = <<1, 0>>
    /\ orientation = "Portrait"
    /\ canvas = <<4, 4>>
    /\ trimmed_dims = <<4, 4>>

====
